---- MODULE Spec2Model ----
(***************************************************************************)
(* Model of src/analytics/main.py: the analytics engine (correlation,      *)
(* regression, k-means clustering, statistical summary) and the five POST  *)
(* handlers in front of it.                                                *)
(*                                                                         *)
(* A handler contains no await, so it runs to completion on the event      *)
(* loop: each handler is one atomic action.  The transport then sends the  *)
(* envelope (action Respond) and the request-scoped objects are dropped.   *)
(*                                                                         *)
(* pandas, numpy and scikit-learn are modelled by their documented         *)
(* behaviour on the calls main.py makes.  Numbers are small integers;      *)
(* every derived quantity is kept exact as an integer fraction.            *)
(***************************************************************************)
EXTENDS Integers, Sequences, FiniteSets, TLC

VARIABLES engine, np_random, pc, request, response, uncaught, trace, memo

vars == <<engine, np_random, pc, request, response, uncaught, trace, memo>>

(***************************************************************************)
(* Bounds of the model.                                                    *)
(***************************************************************************)
MaxRows == 3

MaxIter == 4

(***************************************************************************)
(* JSON values of a record: number, text, boolean, null, nested object.    *)
(* "nan" is the marker pandas puts in a cell whose key is absent from the  *)
(* record.                                                                 *)
(***************************************************************************)
Num(n) == [kind |-> "num", num |-> n, text |-> ""]
Str(s) == [kind |-> "str", num |-> 0, text |-> s]
Bool(b) == [kind |-> "bool", num |-> IF b THEN 1 ELSE 0, text |-> ""]
Null == [kind |-> "null", num |-> 0, text |-> ""]
NaN == [kind |-> "nan", num |-> 0, text |-> ""]
Nested == [kind |-> "dict", num |-> 0, text |-> ""]

IsNa(cell) == cell.kind \in {"null", "nan"}

(***************************************************************************)
(* The records a caller may send.  A record is a JSON object: a sequence   *)
(* of <<key, value>> pairs in the order the keys appear.                   *)
(***************************************************************************)
RecordPool ==
    { << <<"a", Num(0)>>, <<"b", Num(0)>>, <<"c", Num(1)>>, <<"s", Str("x")>>, <<"f", Bool(TRUE)>> >>,
      << <<"a", Num(1)>>, <<"b", Num(0)>>, <<"c", Num(0)>>, <<"s", Str("y")>>, <<"f", Bool(FALSE)>> >>,
      << <<"b", Num(1)>>, <<"a", Num(1)>>, <<"c", Null>>, <<"s", Num(2)>> >>,
      << <<"a", Num(1)>>, <<"b", Num(1)>>, <<"c", Num(0)>>, <<"m", Nested>> >> }

RECURSIVE SeqsUpTo(_, _)
SeqsUpTo(S, n) ==
    IF n = 0 THEN {<<>>}
    ELSE LET shorter == SeqsUpTo(S, n - 1)
         IN  shorter \cup {Append(q, x) : q \in {p \in shorter : Len(p) = n - 1}, x \in S}

DataChoices == SeqsUpTo(RecordPool, MaxRows)

Range(q) == {q[i] : i \in DOMAIN q}

(* The value f itself.  TLC evaluates a function expression anew on every  *)
(* application; the comparison makes it compute the whole value once.      *)
Value(f) == IF f = f THEN f ELSE f

(***************************************************************************)
(* pd.DataFrame(data) for a list of dicts.                                 *)
(***************************************************************************)
Keys(record) == [i \in DOMAIN record |-> record[i][1]]

RECURSIVE Unique(_)
Unique(q) ==
    IF q = <<>> THEN <<>>
    ELSE LET front == Unique(SubSeq(q, 1, Len(q) - 1))
             last == q[Len(q)]
         IN  IF last \in Range(front) THEN front ELSE Append(front, last)

RECURSIVE AllKeys(_)
AllKeys(data) ==
    IF data = <<>> THEN <<>>
    ELSE AllKeys(SubSeq(data, 1, Len(data) - 1)) \o Keys(data[Len(data)])

Get(record, key) ==
    IF \E i \in DOMAIN record : record[i][1] = key
    THEN record[CHOOSE i \in DOMAIN record : record[i][1] = key][2]
    ELSE NaN

DataFrame(data) ==
    LET columns == Unique(AllKeys(data))
    IN  [columns |-> columns,
         rows |-> Len(data),
         cells |-> Value([c \in Range(columns) |-> [i \in DOMAIN data |-> Get(data[i], c)]])]

(***************************************************************************)
(* The dtype pandas infers for a column of such values.                    *)
(***************************************************************************)
Dtype(column) ==
    LET kinds == {column[i].kind : i \in DOMAIN column}
    IN  IF "str" \in kinds \/ "dict" \in kinds THEN "object"
        ELSE IF "bool" \in kinds THEN (IF kinds = {"bool"} THEN "bool" ELSE "object")
        ELSE IF "num" \in kinds THEN (IF kinds = {"num"} THEN "int64" ELSE "float64")
        ELSE IF "nan" \in kinds THEN "float64"
        ELSE "object"

NumberDtypes == {"int64", "float64"}

(* df[columns]: KeyError when a requested column is not in the frame *)
HasColumns(df, columns) == Range(columns) \subseteq Range(df.columns)

GetItem(df, columns) ==
    [columns |-> columns,
     rows |-> df.rows,
     cells |-> [c \in Range(columns) |-> df.cells[c]]]

(* df.select_dtypes(include=...) *)
select_dtypes(df, include) ==
    LET Keep(c) == Dtype(df.cells[c]) \in include
        columns == SelectSeq(df.columns, Keep)
    IN  [columns |-> columns,
         rows |-> df.rows,
         cells |-> [c \in Range(columns) |-> df.cells[c]]]

(* a variant of Empty that looks at the rows only *)
Empty_no_rows(df) == df.rows = 0

(* df.empty: some axis has length 0 *)
Empty(df) == df.columns = <<>> \/ df.rows = 0

(***************************************************************************)
(* Exceptions and what a call yields.  An exception carries a message:     *)
(* a fixed text followed by an interpolated argument (a sequence of        *)
(* characters, empty when the message interpolates nothing).  "steps" is   *)
(* the list of computations the call performed, "frame" the DataFrame df   *)
(* of the call as the call left it, "draws" the number of draws the call   *)
(* took from numpy's global random state.                                  *)
(***************************************************************************)
NoFrame == [columns |-> <<>>, rows |-> 0, cells |-> <<>>]

Raise(type, text, arg, steps, frame) ==
    [raised |-> TRUE,
     error |-> [type |-> type, prefix |-> "", text |-> text, arg |-> arg],
     result |-> <<>>, steps |-> steps, frame |-> frame, draws |-> 0]

Return(result, steps, frame) ==
    [raised |-> FALSE,
     error |-> [type |-> "", prefix |-> "", text |-> "", arg |-> <<>>],
     result |-> result, steps |-> steps, frame |-> frame, draws |-> 0]

(* str(e) *)
StrOf(error) == [prefix |-> error.prefix, text |-> error.text, arg |-> error.arg]

(* except Exception as e: raise HTTPException(status_code=400, detail=str(e)) *)
HTTPException400(outcome) ==
    IF outcome.raised
    THEN [outcome EXCEPT !.error = [type |-> "HTTPException", prefix |-> "400: ",
                                    text |-> outcome.error.text, arg |-> outcome.error.arg]]
    ELSE outcome

(***************************************************************************)
(* Exact arithmetic on a numeric column.                                   *)
(***************************************************************************)
RECURSIVE SumOver(_, _)
SumOver(f, S) ==
    IF S = {} THEN 0
    ELSE LET x == CHOOSE y \in S : TRUE
         IN  f[x] + SumOver(f, S \ {x})

Present(column) == {i \in DOMAIN column : ~IsNa(column[i])}

Values(column) == [i \in DOMAIN column |-> column[i].num]

(***************************************************************************)
(* DataFrame.corr(): Pearson coefficient over the rows where both values   *)
(* are present.  With n such rows the coefficient is                       *)
(*   (n*Sxy - Sx*Sy) / sqrt((n*Sxx - Sx^2) * (n*Syy - Sy^2)),              *)
(* kept as its sign and its square num/den; NaN when the divisor is 0.     *)
(***************************************************************************)
Abs(n) == IF n < 0 THEN -n ELSE n

RECURSIVE Gcd(_, _)
Gcd(a, b) == IF b = 0 THEN a ELSE Gcd(b, a % b)

Sign(n) == IF n > 0 THEN 1 ELSE IF n < 0 THEN -1 ELSE 0

Pearson(x, y) ==
    LET both == Present(x) \cap Present(y)
        n == Cardinality(both)
        vx == Values(x)
        vy == Values(y)
        sx == SumOver(vx, both)
        sy == SumOver(vy, both)
        sxx == SumOver([i \in DOMAIN x |-> vx[i] * vx[i]], both)
        syy == SumOver([i \in DOMAIN y |-> vy[i] * vy[i]], both)
        sxy == SumOver([i \in DOMAIN x |-> vx[i] * vy[i]], both)
        cov == n * sxy - sx * sy
        den == (n * sxx - sx * sx) * (n * syy - sy * sy)
    IN  IF den = 0
        THEN [nan |-> TRUE, sign |-> 0, num |-> 0, den |-> 1]
        ELSE [nan |-> FALSE, sign |-> Sign(cov),
              num |-> (cov * cov) \div Gcd(cov * cov, den), den |-> den \div Gcd(cov * cov, den)]

(* the matrix, read by position as corr_matrix.iloc[i, j] *)
corr(df) ==
    [columns |-> df.columns,
     iloc |-> Value([i \in DOMAIN df.columns |-> [j \in DOMAIN df.columns |->
                  Pearson(df.cells[df.columns[i]], df.cells[df.columns[j]])]])]

(* corr_matrix.to_dict(): column -> row label -> coefficient *)
to_dict(m) ==
    [c \in Range(m.columns) |-> [r \in Range(m.columns) |->
        m.iloc[CHOOSE i \in DOMAIN m.columns : m.columns[i] = r]
              [CHOOSE j \in DOMAIN m.columns : m.columns[j] = c]]]

(***************************************************************************)
(* _find_strong_correlations(corr_matrix, threshold=0.7).  The threshold   *)
(* is the fraction ThresholdNum / ThresholdDen; abs(v) >= threshold is     *)
(* False for NaN.                                                          *)
(***************************************************************************)
ThresholdNum == 7

ThresholdDen == 10

(* a variant of AbsAtLeast that compares the signed value *)
AbsAtLeast_signed(v, tnum, tden) ==
    ~v.nan /\ v.sign > 0 /\ v.num * tden * tden >= tnum * tnum * v.den

AbsAtLeast(v, tnum, tden) ==
    ~v.nan /\ v.num * tden * tden >= tnum * tnum * v.den

RECURSIVE StrongInner(_, _, _, _, _)
StrongInner(m, tnum, tden, i, j) ==
    IF j > Len(m.columns) THEN <<>>
    ELSE (IF AbsAtLeast(m.iloc[i][j], tnum, tden)
          THEN << [column1 |-> m.columns[i], column2 |-> m.columns[j],
                   correlation |-> m.iloc[i][j]] >>
          ELSE <<>>)
         \o StrongInner(m, tnum, tden, i, j + 1)

RECURSIVE StrongOuter(_, _, _, _)
StrongOuter(m, tnum, tden, i) ==
    IF i > Len(m.columns) THEN <<>>
    ELSE StrongInner(m, tnum, tden, i, i + 1) \o StrongOuter(m, tnum, tden, i + 1)

find_strong_correlations(corr_matrix) ==
    StrongOuter(corr_matrix, ThresholdNum, ThresholdDen, 1)

(***************************************************************************)
(* AnalyticsEngine.correlation_analysis                                    *)
(***************************************************************************)
correlation_body(data, columns) ==
    LET df == DataFrame(data)
    IN  IF ~HasColumns(df, columns)
        THEN Raise("KeyError", "not in index", <<>>, <<"DataFrame">>, df)
        ELSE
        LET numeric_df == select_dtypes(GetItem(df, columns), NumberDtypes)
        IN  IF Empty(numeric_df)
            THEN Raise("ValueError", "No numeric columns found for correlation analysis",
                       <<>>, <<"DataFrame", "select_dtypes">>, df)
            ELSE
            LET correlation_matrix == corr(numeric_df)
            IN  Return([correlation_matrix |-> to_dict(correlation_matrix),
                    columns |-> numeric_df.columns,
                    summary |-> [total_columns |-> Len(numeric_df.columns),
                                 strong_correlations |->
                                     find_strong_correlations(correlation_matrix)]],
                   <<"DataFrame", "select_dtypes", "corr", "_find_strong_correlations">>,
                   df)

Engine_correlation_analysis(data, columns) ==
    HTTPException400(correlation_body(data, columns))

(***************************************************************************)
(* Exact fractions n/d, d > 0, in lowest terms.                            *)
(***************************************************************************)
Frac(n, d) ==
    LET g == Gcd(Abs(n), Abs(d))
        s == IF d < 0 THEN -1 ELSE 1
    IN  [n |-> s * (n \div g), d |-> s * (d \div g)]

FAdd(x, y) == Frac(x.n * y.d + y.n * x.d, x.d * y.d)
FSub(x, y) == Frac(x.n * y.d - y.n * x.d, x.d * y.d)
FMul(x, y) == Frac(x.n * y.n, x.d * y.d)
FDiv(x, y) == Frac(x.n * y.d, x.d * y.n)
FLess(x, y) == x.n * y.d < y.n * x.d
Zero == Frac(0, 1)

RECURSIVE FSum(_, _)
FSum(f, S) ==
    IF S = {} THEN Zero
    ELSE LET x == CHOOSE y \in S : TRUE
         IN  FAdd(f[x], FSum(f, S \ {x}))

(* Series.mean(), skipping missing values; "nan" when there is none *)
Mean(column) ==
    LET present == Present(column)
    IN  IF present = {} THEN [nan |-> TRUE, value |-> Zero]
        ELSE [nan |-> FALSE,
              value |-> Frac(SumOver(Values(column), present), Cardinality(present))]

(* numeric_df.fillna(numeric_df.mean()): a cell is a fraction, or still NaN *)
fillna_mean(df) ==
    Value([c \in Range(df.columns) |->
            LET column == df.cells[c]
                mean == Mean(column)
            IN  [i \in DOMAIN column |->
                    IF IsNa(column[i]) THEN mean
                    ELSE [nan |-> FALSE, value |-> Frac(column[i].num, 1)]]])

HasNaN(filled) == \E c \in DOMAIN filled : \E i \in DOMAIN filled[c] : filled[c][i].nan

(***************************************************************************)
(* StandardScaler().fit_transform: z = (x - mean) / std per column, with   *)
(* std the population deviation and a zero std replaced by 1.  std is a    *)
(* square root, so a standardized value is kept as its deviation x - mean  *)
(* together with the column variance: z = dev / sqrt(var), z = dev when    *)
(* var = 0.                                                                *)
(***************************************************************************)
fit_transform(filled, rows) ==
    Value([c \in DOMAIN filled |->
            LET x == [i \in 1..rows |-> filled[c][i].value]
                mean == FDiv(FSum(x, 1..rows), Frac(rows, 1))
                dev == Value([i \in 1..rows |-> FSub(x[i], mean)])
                var == FDiv(FSum([i \in 1..rows |-> FMul(dev[i], dev[i])], 1..rows),
                            Frac(rows, 1))
            IN  [var |-> var, dev |-> dev]])

(* squared Euclidean distance in standardized space between two points,   *)
(* each given by its deviation per column                                  *)
SqDist(scaled, p, q) ==
    FSum([c \in DOMAIN scaled |->
            LET d == FSub(p[c], q[c])
            IN  IF scaled[c].var.n = 0 THEN FMul(d, d)
                ELSE FDiv(FMul(d, d), scaled[c].var)],
         DOMAIN scaled)

Point(scaled, i) == [c \in DOMAIN scaled |-> scaled[c].dev[i]]

(***************************************************************************)
(* numpy RandomState: a state and a draw.  RandomState(seed) is seeded     *)
(* from the seed alone; the global RandomState of numpy is np_random.      *)
(***************************************************************************)
RngPeriod == 64

Seeded(seed) == seed % RngPeriod

RngNext(s) == (s * 5 + 1) % RngPeriod

RngDraw(s, m) == s % m

(***************************************************************************)
(* KMeans(n_clusters, random_state).fit_predict(scaled_data): the initial  *)
(* centers are rows drawn with the random state, then Lloyd's iteration:   *)
(* assign each row to the nearest center (lowest index on a tie), move     *)
(* each center to the mean of its rows, until the labels are stable.       *)
(***************************************************************************)
RECURSIVE InitCenters(_, _, _, _)
InitCenters(scaled, left, k, s) ==
    IF k = 0 THEN <<>>
    ELSE LET pick == CHOOSE x \in left :
                         Cardinality({y \in left : y < x}) = RngDraw(s, Cardinality(left))
         IN  <<Point(scaled, pick)>> \o InitCenters(scaled, left \ {pick}, k - 1, RngNext(s))

RECURSIVE RngAfter(_, _)
RngAfter(s, k) == IF k = 0 THEN s ELSE RngAfter(RngNext(s), k - 1)

Nearest(scaled, centers, p) ==
    CHOOSE j \in DOMAIN centers :
        /\ \A l \in DOMAIN centers : ~FLess(SqDist(scaled, p, centers[l]), SqDist(scaled, p, centers[j]))
        /\ \A l \in DOMAIN centers :
              l < j => FLess(SqDist(scaled, p, centers[j]), SqDist(scaled, p, centers[l]))

Assign(scaled, centers, rows) ==
    Value([i \in 1..rows |-> Nearest(scaled, centers, Point(scaled, i))])

Move(scaled, centers, labels) ==
    Value([j \in DOMAIN centers |->
            LET members == {i \in DOMAIN labels : labels[i] = j}
            IN  IF members = {} THEN centers[j]
                ELSE [c \in DOMAIN scaled |->
                        FDiv(FSum(scaled[c].dev, members), Frac(Cardinality(members), 1))]])

RECURSIVE Lloyd(_, _, _, _)
Lloyd(scaled, centers, rows, iter) ==
    LET labels == Assign(scaled, centers, rows)
        moved == Move(scaled, centers, labels)
    IN  IF iter = 0 \/ moved = centers THEN [labels |-> labels, centers |-> moved]
        ELSE Lloyd(scaled, moved, rows, iter - 1)

(* labels are 0-based; a center is reported per column as dev / sqrt(var) *)
KMeansFit(scaled, rows, n_clusters, s) ==
    LET fit == Lloyd(scaled, InitCenters(scaled, 1..rows, n_clusters, s), rows, MaxIter)
    IN  [labels |-> [i \in 1..rows |-> fit.labels[i] - 1],
         cluster_centers |-> [j \in 1..n_clusters |->
                                 [c \in DOMAIN scaled |->
                                     [dev |-> fit.centers[j][c], var |-> scaled[c].var]]],
         inertia |-> FSum([i \in 1..rows |->
                             SqDist(scaled, Point(scaled, i), fit.centers[fit.labels[i]])],
                          1..rows)]

(***************************************************************************)
(* KMeans(n_clusters=n_clusters, random_state=42): an integer seed gives   *)
(* the fit a RandomState of its own, seeded from it; the global one is     *)
(* not read.                                                               *)
(***************************************************************************)
KMeansSeed == 42

(* a variant of random_state without a seed: the global state is drawn from *)
random_state_global(global) == [start |-> global, shared |-> TRUE]

random_state(global) == [start |-> Seeded(KMeansSeed), shared |-> FALSE]

(* a variant of kmeans_n_clusters that clamps the count into 1..rows *)
kmeans_n_clusters_clamped(n_clusters, rows) ==
    IF n_clusters < 1 THEN 1 ELSE IF n_clusters > rows THEN rows ELSE n_clusters

(* KMeans(n_clusters=n_clusters, ...): the count asked for is the count fitted *)
kmeans_n_clusters(n_clusters, rows) == n_clusters

(* df_with_clusters = df.copy(); df_with_clusters['cluster'] = clusters *)
SetItem(df, name, values) ==
    [columns |-> Append(df.columns, name),
     rows |-> df.rows,
     cells |-> [c \in Range(df.columns) \cup {name} |->
                  IF c = name THEN [i \in 1..df.rows |-> Num(values[i])] ELSE df.cells[c]]]

(* a variant of label_clusters that writes the labels into df itself *)
label_clusters_in_place(df, clusters) ==
    [df |-> SetItem(df, "cluster", clusters), df_with_clusters |-> SetItem(df, "cluster", clusters)]

label_clusters(df, clusters) ==
    [df |-> df, df_with_clusters |-> SetItem(df, "cluster", clusters)]

(***************************************************************************)
(* AnalyticsEngine._cluster_summary: one entry per value of                *)
(* df['cluster'].unique(); the entry of label id stands for the key        *)
(* "cluster_<id>".  percentage and the means are exact fractions.          *)
(***************************************************************************)
(* a variant of cluster_summary that measures the whole frame per cluster *)
cluster_summary_whole_frame(df, numeric_columns) ==
    [cluster_id \in Range(Values(df.cells["cluster"])) |->
        [size |-> df.rows,
         percentage |-> Frac(df.rows * 100, df.rows),
         numeric_means |-> [c \in Range(numeric_columns) |-> Mean(df.cells[c])]]]

cluster_summary(df, numeric_columns) ==
    LET cluster == Values(df.cells["cluster"])
    IN  [cluster_id \in Range(cluster) |->
            LET cluster_data == {i \in DOMAIN cluster : cluster[i] = cluster_id}
            IN  [size |-> Cardinality(cluster_data),
                 percentage |-> Frac(Cardinality(cluster_data) * 100, df.rows),
                 numeric_means |->
                     [c \in Range(numeric_columns) |->
                        LET present == Present(df.cells[c]) \cap cluster_data
                        IN  IF present = {} THEN [nan |-> TRUE, value |-> Zero]
                            ELSE [nan |-> FALSE,
                                  value |-> Frac(SumOver(Values(df.cells[c]), present),
                                                 Cardinality(present))]]]]

(***************************************************************************)
(* AnalyticsEngine.clustering_analysis.  scikit-learn rejects, with a      *)
(* ValueError, n_clusters < 1, input holding NaN, and fewer rows than      *)
(* clusters.                                                               *)
(***************************************************************************)
clustering_body(data, columns, n_clusters, global) ==
    LET df == DataFrame(data)
    IN  IF ~HasColumns(df, columns)
        THEN Raise("KeyError", "not in index", <<>>, <<"DataFrame">>, df)
        ELSE
        LET numeric_df == select_dtypes(GetItem(df, columns), NumberDtypes)
        IN  IF Empty(numeric_df)
            THEN Raise("ValueError", "No numeric columns found for clustering",
                       <<>>, <<"DataFrame", "select_dtypes">>, df)
            ELSE
            LET filled == fillna_mean(numeric_df)
                k == kmeans_n_clusters(n_clusters, df.rows)
                before == <<"DataFrame", "select_dtypes", "fillna", "fit_transform", "KMeans">>
            IN  IF k < 1
                THEN Raise("ValueError",
                           "The 'n_clusters' parameter of KMeans must be an int in the range [1, inf)",
                           <<>>, before, df)
                ELSE IF HasNaN(filled)
                THEN Raise("ValueError", "Input X contains NaN", <<>>, before, df)
                ELSE IF df.rows < k
                THEN Raise("ValueError", "n_samples should be >= n_clusters", <<>>, before, df)
                ELSE
                LET scaled_data == fit_transform(filled, df.rows)
                    rs == random_state(global)
                    kmeans == KMeansFit(scaled_data, df.rows, k, rs.start)
                    clusters == kmeans.labels
                    labelled == label_clusters(df, clusters)
                IN  [Return([clusters |-> clusters,
                             cluster_centers |-> kmeans.cluster_centers,
                             inertia |-> kmeans.inertia,
                             n_clusters |-> n_clusters,
                             cluster_summary |->
                                 cluster_summary(labelled.df_with_clusters, numeric_df.columns)],
                            before \o <<"fit_predict", "copy", "_cluster_summary">>,
                            labelled.df)
                     EXCEPT !.draws = IF rs.shared THEN k ELSE 0]

Engine_clustering_analysis(data, columns, n_clusters, global) ==
    HTTPException400(clustering_body(data, columns, n_clusters, global))

(***************************************************************************)
(* AnalyticsEngine.regression_analysis.  The least-squares solution is     *)
(* left symbolic: a coefficient is the term <<"coef_", feature>>, and so   *)
(* on; what is modelled is which calls fit a model and on which columns.   *)
(***************************************************************************)
regression_body(data, target, features) ==
    LET df == DataFrame(data)
    IN  IF ~HasColumns(df, features) \/ ~HasColumns(df, <<target>>)
        THEN Raise("KeyError", "not in index", <<>>, <<"DataFrame">>, df)
        ELSE
        LET X == select_dtypes(GetItem(df, features), NumberDtypes)
            y == df.cells[target]
            before == <<"DataFrame", "select_dtypes">>
        IN  IF Empty(X) \/ \A i \in DOMAIN y : IsNa(y[i])
            THEN Raise("ValueError", "Invalid data for regression analysis", <<>>, before, df)
            ELSE IF \E i \in DOMAIN y : y[i].kind \in {"str", "dict"}
            THEN Raise("TypeError", "Could not convert to numeric", <<>>,
                       before \o <<"fillna">>, df)
            ELSE IF HasNaN(fillna_mean(X))
            THEN Raise("ValueError", "Input X contains NaN", <<>>,
                       before \o <<"fillna", "LinearRegression">>, df)
            ELSE Return([coefficients |-> [c \in Range(X.columns) |-> <<"coef_", c>>],
                         intercept |-> <<"intercept_", target>>,
                         r_squared |-> <<"r2_score", target>>,
                         mean_squared_error |-> <<"mean_squared_error", target>>,
                         feature_importance |-> [c \in Range(X.columns) |-> <<"abs(coef_)", c>>],
                         predictions |-> [i \in 1..df.rows |-> <<"predict", i>>]],
                        before \o <<"fillna", "LinearRegression", "fit", "predict">>, df)

Engine_regression_analysis(data, target, features) ==
    HTTPException400(regression_body(data, target, features))

(***************************************************************************)
(* DataFrame.describe() of a numeric column: count, mean, std, min, the    *)
(* quartiles (linear interpolation) and max over the present values.  std  *)
(* is kept as its square, the sample variance.                             *)
(***************************************************************************)
RECURSIVE Sorted(_)
Sorted(bag) ==
    IF bag = <<>> THEN <<>>
    ELSE LET i == CHOOSE k \in DOMAIN bag : \A l \in DOMAIN bag : bag[k] <= bag[l]
         IN  <<bag[i]>> \o Sorted(SubSeq(bag, 1, i - 1) \o SubSeq(bag, i + 1, Len(bag)))

Quantile(sorted, quarter) ==
    LET pos == (Len(sorted) - 1) * quarter
        lo == pos \div 4 + 1
        hi == IF lo < Len(sorted) THEN lo + 1 ELSE lo
    IN  FAdd(Frac(sorted[lo], 1), Frac((pos % 4) * (sorted[hi] - sorted[lo]), 4))

NotANumber == [nan |-> TRUE, value |-> Zero]

Number(f) == [nan |-> FALSE, value |-> f]

describe(column) ==
    LET IsPresent(cell) == ~IsNa(cell)
        values == Values(SelectSeq(column, IsPresent))
        count == Len(values)
        sorted == Sorted(values)
        sum == SumOver(values, DOMAIN values)
        squares == SumOver([i \in DOMAIN values |-> values[i] * values[i]], DOMAIN values)
    IN  [count |-> count,
         mean |-> IF count = 0 THEN NotANumber ELSE Number(Frac(sum, count)),
         std |-> IF count < 2 THEN NotANumber
                 ELSE Number(Frac(count * squares - sum * sum, count * (count - 1))),
         min |-> IF count = 0 THEN NotANumber ELSE Number(Frac(sorted[1], 1)),
         q25 |-> IF count = 0 THEN NotANumber ELSE Number(Quantile(sorted, 1)),
         q50 |-> IF count = 0 THEN NotANumber ELSE Number(Quantile(sorted, 2)),
         q75 |-> IF count = 0 THEN NotANumber ELSE Number(Quantile(sorted, 3)),
         max |-> IF count = 0 THEN NotANumber ELSE Number(Frac(sorted[count], 1))]

(***************************************************************************)
(* Series.nunique() and Series.mode().iloc[0] of an object column.  mode   *)
(* returns the most frequent values sorted; values of one kind sort by     *)
(* value (texts in the order of TextOrder), values of several kinds do     *)
(* not sort and come in order of first appearance.                         *)
(***************************************************************************)
TextOrder == <<"x", "y">>

SortKey(cell) ==
    IF cell.kind = "str" THEN CHOOSE i \in DOMAIN TextOrder : TextOrder[i] = cell.text
    ELSE cell.num

nunique(column) == Cardinality({column[i] : i \in Present(column)})

most_frequent(column) ==
    LET Count(v) == Cardinality({i \in DOMAIN column : column[i] = v})
        values == {column[i] : i \in Present(column)}
        modes == {v \in values : \A w \in values : Count(w) <= Count(v)}
        First(v) == CHOOSE i \in DOMAIN column : column[i] = v /\ \A j \in 1..(i - 1) : column[j] # v
    IN  IF modes = {} THEN Null
        ELSE IF Cardinality({v.kind : v \in modes}) = 1
        THEN CHOOSE v \in modes : \A w \in modes : SortKey(v) <= SortKey(w)
        ELSE CHOOSE v \in modes : \A w \in modes : First(v) <= First(w)

(***************************************************************************)
(* AnalyticsEngine.statistical_summary.  nunique() hashes the values of a  *)
(* column and raises TypeError on a nested object.                         *)
(***************************************************************************)
summary_body(data) ==
    LET df == DataFrame(data)
        numeric_df == select_dtypes(df, NumberDtypes)
        categorical_df == select_dtypes(df, {"object"})
    IN  IF \E c \in Range(categorical_df.columns) :
              \E i \in DOMAIN df.cells[c] : df.cells[c][i].kind = "dict"
        THEN Raise("TypeError", "unhashable type: 'dict'", <<>>,
                   <<"DataFrame", "select_dtypes", "describe">>, df)
        ELSE
        Return([data_shape |-> <<df.rows, Len(df.columns)>>,
                numeric_summary |->
                    IF ~Empty(numeric_df)
                    THEN [c \in Range(numeric_df.columns) |-> describe(df.cells[c])]
                    ELSE <<>>,
                categorical_summary |->
                    [col \in Range(categorical_df.columns) |->
                        [unique_count |-> nunique(df.cells[col]),
                         most_frequent |-> most_frequent(df.cells[col]),
                         missing_count |-> Cardinality(DOMAIN df.cells[col] \ Present(df.cells[col]))]],
                missing_data |->
                    [c \in Range(df.columns) |->
                        Cardinality(DOMAIN df.cells[c] \ Present(df.cells[c]))],
                data_types |-> [c \in Range(df.columns) |-> Dtype(df.cells[c])]],
               <<"DataFrame", "select_dtypes", "describe">>, df)

Engine_statistical_summary(data) == HTTPException400(summary_body(data))

(***************************************************************************)
(* Text as a sequence of characters, and str.lower().                      *)
(***************************************************************************)
UpperLetters ==
    <<"A", "B", "C", "D", "E", "F", "G", "H", "I", "J", "K", "L", "M",
      "N", "O", "P", "Q", "R", "S", "T", "U", "V", "W", "X", "Y", "Z">>

LowerLetters ==
    <<"a", "b", "c", "d", "e", "f", "g", "h", "i", "j", "k", "l", "m",
      "n", "o", "p", "q", "r", "s", "t", "u", "v", "w", "x", "y", "z">>

(* a variant of lower that leaves the text as it is *)
lower_unchanged(text) == text

lower(text) ==
    [i \in DOMAIN text |->
        IF \E k \in DOMAIN UpperLetters : UpperLetters[k] = text[i]
        THEN LowerLetters[CHOOSE k \in DOMAIN UpperLetters : UpperLetters[k] = text[i]]
        ELSE text[i]]

Correlation == <<"c", "o", "r", "r", "e", "l", "a", "t", "i", "o", "n">>
Regression == <<"r", "e", "g", "r", "e", "s", "s", "i", "o", "n">>
Clustering == <<"c", "l", "u", "s", "t", "e", "r", "i", "n", "g">>
Summary == <<"s", "u", "m", "m", "a", "r", "y">>

(***************************************************************************)
(* What the callers send.                                                  *)
(***************************************************************************)
ColumnChoices ==
    { <<>>, <<"a", "b", "c">>, <<"c", "a">>, <<"a", "b">>, <<"b">>, <<"s", "f">>, <<"a", "s">>,
      <<"z">> }

TargetChoices == {"a", "c", "s", "f", "z"}

NClusterChoices == (-1)..(MaxRows + 1)

DirectiveChoices ==
    { Correlation, Regression, Clustering, Summary,
      <<"C", "o", "r", "r", "e", "l", "a", "t", "i", "o", "n">>,
      <<"R", "E", "G", "R", "E", "S", "S", "I", "O", "N">>,
      <<"C", "l", "u", "s", "t", "e", "r", "i", "n", "g">>,
      <<"S", "U", "M", "M", "A", "R", "Y">>,
      <<"c", "l", "u", "s", "t", "e", "r">>,
      <<"F", "o", "o">>,
      <<>> }

(* the options mapping of /analyze: None, or a dict with some of the keys *)
Parameters(keys, columns, target_column, feature_columns, n_clusters) ==
    [none |-> FALSE, keys |-> keys, columns |-> columns, target_column |-> target_column,
     feature_columns |-> feature_columns, n_clusters |-> n_clusters]

NoParameters == [Parameters({}, <<>>, "", <<>>, 0) EXCEPT !.none = TRUE]

ParameterChoices ==
    { NoParameters,
      Parameters({}, <<>>, "", <<>>, 0),
      Parameters({"columns"}, <<"a", "b", "c">>, "", <<>>, 0),
      Parameters({"columns"}, <<>>, "", <<>>, 0),
      Parameters({"columns"}, <<"s", "f">>, "", <<>>, 0),
      Parameters({"columns", "n_clusters"}, <<"a", "b">>, "", <<>>, 2),
      Parameters({"columns", "n_clusters"}, <<"c", "a">>, "", <<>>, 0),
      Parameters({"target_column", "feature_columns"}, <<>>, "c", <<"a", "b">>, 0),
      Parameters({"target_column"}, <<>>, "c", <<>>, 0),
      Parameters({"feature_columns"}, <<>>, "", <<"a">>, 0),
      Parameters({"target_column", "feature_columns"}, <<>>, "", <<"a">>, 0),
      Parameters({"target_column", "feature_columns"}, <<>>, "a", <<>>, 0) }

Request(endpoint, data, columns, target_column, feature_columns, n_clusters, analysis_type, parameters) ==
    [endpoint |-> endpoint, data |-> data, columns |-> columns,
     target_column |-> target_column, feature_columns |-> feature_columns,
     n_clusters |-> n_clusters, analysis_type |-> analysis_type, parameters |-> parameters]

NoRequest == Request("", <<>>, <<>>, "", <<>>, 0, <<>>, NoParameters)

(* class ClusteringRequest: n_clusters: int = 3 *)
ClusteringRequest_n_clusters == 3

(***************************************************************************)
(* The engine calls a handler makes, as a list.                            *)
(***************************************************************************)
Call(method, data, columns, target, features, n_clusters) ==
    [method |-> method, data |-> data, columns |-> columns, target |-> target,
     features |-> features, n_clusters |-> n_clusters]

(***************************************************************************)
(* AnalyticsResponse, and the try / except Exception of a handler:         *)
(*     result = analytics_engine.<analysis>(...)                           *)
(*     return AnalyticsResponse(success=True, result=result)               *)
(* except Exception as e:                                                  *)
(*     return AnalyticsResponse(success=False, result={}, message=str(e))  *)
(***************************************************************************)
None == [given |-> FALSE, prefix |-> "", text |-> "", arg |-> <<>>]

Message(str) == [given |-> TRUE, prefix |-> str.prefix, text |-> str.text, arg |-> str.arg]

AnalyticsResponse(success, result, message) ==
    [success |-> success, result |-> result, message |-> message]

NoResponse == AnalyticsResponse(FALSE, <<>>, None)

NoError == [type |-> "", prefix |-> "", text |-> "", arg |-> <<>>]

(* every exception raised here derives from Exception *)
ExceptionTypes == {"HTTPException", "ValueError", "KeyError", "TypeError", "AttributeError"}

(* a variant of Caught for a handler with "except ValueError" *)
Caught_ValueError_only(error) == error.type = "ValueError"

Caught(error) == error.type \in ExceptionTypes

TryExcept(outcome) ==
    IF ~outcome.raised
    THEN [returned |-> TRUE, uncaught |-> NoError,
          response |-> AnalyticsResponse(TRUE, outcome.result, None)]
    ELSE IF Caught(outcome.error)
    THEN [returned |-> TRUE, uncaught |-> NoError,
          response |-> AnalyticsResponse(FALSE, <<>>, Message(StrOf(outcome.error)))]
    ELSE [returned |-> FALSE, uncaught |-> outcome.error, response |-> NoResponse]

(***************************************************************************)
(* dict.get(key) on the options mapping, and Python truth of the value:    *)
(* a missing key gives None, and None, [], "" and 0 are false.             *)
(***************************************************************************)
Has(parameters, key) == key \in parameters.keys

Truthy(parameters, key) ==
    /\ Has(parameters, key)
    /\ CASE key = "columns" -> parameters.columns # <<>>
         [] key = "target_column" -> parameters.target_column # ""
         [] key = "feature_columns" -> parameters.feature_columns # <<>>
         [] OTHER -> parameters.n_clusters # 0

(* request.parameters.get("n_clusters", 3) *)
GetDefault_n_clusters == 3

get_n_clusters(parameters) ==
    IF Has(parameters, "n_clusters") THEN parameters.n_clusters ELSE GetDefault_n_clusters

(***************************************************************************)
(* The body of general_analysis inside its try: the outcome and the        *)
(* engine calls made.                                                      *)
(***************************************************************************)
NoCall(outcome) == [outcome |-> outcome, calls |-> <<>>]

NoneHasNoGet ==
    Raise("AttributeError", "'NoneType' object has no attribute 'get'", <<>>, <<>>, NoFrame)

general_body(req, global) ==
    LET analysis_type == lower(req.analysis_type)
        parameters == req.parameters
    IN  IF analysis_type = Correlation
        THEN IF parameters.none THEN NoCall(NoneHasNoGet)
             ELSE IF ~Truthy(parameters, "columns")
             THEN NoCall(Raise("ValueError", "Columns parameter required for correlation analysis",
                               <<>>, <<>>, NoFrame))
             ELSE [outcome |-> Engine_correlation_analysis(req.data, parameters.columns),
                   calls |-> <<Call("correlation_analysis", req.data, parameters.columns,
                                    "", <<>>, 0)>>]
        ELSE IF analysis_type = Regression
        THEN IF parameters.none THEN NoCall(NoneHasNoGet)
             ELSE IF ~Truthy(parameters, "target_column") \/ ~Truthy(parameters, "feature_columns")
             THEN NoCall(Raise("ValueError",
                               "target_column and feature_columns parameters required for regression",
                               <<>>, <<>>, NoFrame))
             ELSE [outcome |-> Engine_regression_analysis(req.data, parameters.target_column,
                                                          parameters.feature_columns),
                   calls |-> <<Call("regression_analysis", req.data, <<>>,
                                    parameters.target_column, parameters.feature_columns, 0)>>]
        ELSE IF analysis_type = Clustering
        THEN IF parameters.none THEN NoCall(NoneHasNoGet)
             ELSE IF ~Truthy(parameters, "columns")
             THEN NoCall(Raise("ValueError", "Columns parameter required for clustering",
                               <<>>, <<>>, NoFrame))
             ELSE [outcome |-> Engine_clustering_analysis(req.data, parameters.columns,
                                                          get_n_clusters(parameters), global),
                   calls |-> <<Call("clustering_analysis", req.data, parameters.columns,
                                    "", <<>>, get_n_clusters(parameters))>>]
        ELSE IF analysis_type = Summary
        THEN [outcome |-> Engine_statistical_summary(req.data),
              calls |-> <<Call("statistical_summary", req.data, <<>>, "", <<>>, 0)>>]
        ELSE NoCall(Raise("ValueError", "Unknown analysis type: ", analysis_type, <<>>, NoFrame))

(***************************************************************************)
(* State.  engine is the shared AnalyticsEngine instance, np_random the    *)
(* global random state of the numpy module it refers to.  request,         *)
(* response, uncaught and trace belong to the request being served (trace  *)
(* records the engine calls made, whether the try block raised, the steps  *)
(* computed and the DataFrame df as the call left it); memo is a history   *)
(* variable: the first answer sent to a chosen clustering call.            *)
(***************************************************************************)
AnalyticsEngine == [pandas |-> "pd", numpy |-> "np"]

(* numpy's global random state once the module is imported *)
GlobalRandomState == Seeded(0)

NoTrace == [calls |-> <<>>, raised |-> FALSE, steps |-> <<>>, frame |-> NoFrame]

NoMemo == [set |-> FALSE, call |-> Call("", <<>>, <<>>, "", <<>>, 0), response |-> NoResponse]

Init ==
    /\ engine = AnalyticsEngine
    /\ np_random = GlobalRandomState
    /\ pc = "idle"
    /\ request = NoRequest
    /\ response = NoResponse
    /\ uncaught = NoError
    /\ trace = NoTrace
    /\ memo = NoMemo

(***************************************************************************)
(* The five handlers.  Serve(req, run) is what every handler does with     *)
(* the outcome of its try block: the engine object stays the same one,     *)
(* and numpy's global random state moves by the draws the call took.       *)
(***************************************************************************)
Serve(req, run) ==
    /\ request' = req
    /\ response' = TryExcept(run.outcome).response
    /\ uncaught' = TryExcept(run.outcome).uncaught
    /\ trace' = [calls |-> run.calls, raised |-> run.outcome.raised,
                 steps |-> run.outcome.steps, frame |-> run.outcome.frame]
    /\ engine' = engine
    /\ np_random' = RngAfter(np_random, run.outcome.draws)
    /\ pc' = "responded"
    /\ UNCHANGED memo

(* @app.post("/correlation") *)
correlation_analysis ==
    /\ pc = "idle"
    /\ \E data \in DataChoices, columns \in ColumnChoices :
         Serve(Request("/correlation", data, columns, "", <<>>, 0, <<>>, NoParameters),
               [outcome |-> Engine_correlation_analysis(data, columns),
                calls |-> <<Call("correlation_analysis", data, columns, "", <<>>, 0)>>])

(* @app.post("/regression") *)
regression_analysis ==
    /\ pc = "idle"
    /\ \E data \in DataChoices, target_column \in TargetChoices,
          feature_columns \in ColumnChoices :
         Serve(Request("/regression", data, <<>>, target_column, feature_columns, 0,
                       <<>>, NoParameters),
               [outcome |-> Engine_regression_analysis(data, target_column, feature_columns),
                calls |-> <<Call("regression_analysis", data, <<>>, target_column,
                                 feature_columns, 0)>>])

(* @app.post("/clustering"); a body without n_clusters gets the default *)
clustering_analysis ==
    /\ pc = "idle"
    /\ \E data \in DataChoices, columns \in ColumnChoices,
          n_clusters \in NClusterChoices \cup {ClusteringRequest_n_clusters} :
         Serve(Request("/clustering", data, columns, "", <<>>, n_clusters, <<>>, NoParameters),
               [outcome |-> Engine_clustering_analysis(data, columns, n_clusters, np_random),
                calls |-> <<Call("clustering_analysis", data, columns, "", <<>>, n_clusters)>>])

(* @app.post("/statistical-summary") *)
statistical_summary ==
    /\ pc = "idle"
    /\ \E data \in DataChoices :
         Serve(Request("/statistical-summary", data, <<>>, "", <<>>, 0, <<>>, NoParameters),
               [outcome |-> Engine_statistical_summary(data),
                calls |-> <<Call("statistical_summary", data, <<>>, "", <<>>, 0)>>])

(* @app.post("/analyze") *)
general_analysis ==
    /\ pc = "idle"
    /\ \E data \in DataChoices, analysis_type \in DirectiveChoices,
          parameters \in ParameterChoices :
         Serve(Request("/analyze", data, <<>>, "", <<>>, 0, analysis_type, parameters),
               general_body(Request("/analyze", data, <<>>, "", <<>>, 0, analysis_type,
                                    parameters), np_random))

(***************************************************************************)
(* The transport sends what the handler returned (or its own 500 for an    *)
(* escaped exception) and the request's objects go out of scope.           *)
(***************************************************************************)
ProbeData ==
    << << <<"a", Num(0)>>, <<"b", Num(0)>>, <<"c", Num(1)>>, <<"s", Str("x")>>, <<"f", Bool(TRUE)>> >>,
       << <<"a", Num(1)>>, <<"b", Num(0)>>, <<"c", Num(0)>>, <<"s", Str("y")>>, <<"f", Bool(FALSE)>> >>,
       << <<"b", Num(1)>>, <<"a", Num(1)>>, <<"c", Null>>, <<"s", Num(2)>> >> >>

ProbeCalls ==
    { Call("clustering_analysis", ProbeData, <<"a", "b">>, "", <<>>, 2),
      Call("clustering_analysis", ProbeData, <<"a", "b", "c">>, "", <<>>, 3) }

Respond ==
    /\ pc = "responded"
    /\ pc' = "idle"
    /\ memo' = IF ~memo.set /\ response.success /\ Range(trace.calls) \cap ProbeCalls # {}
               THEN [set |-> TRUE, call |-> trace.calls[1], response |-> response]
               ELSE memo
    /\ request' = NoRequest
    /\ response' = NoResponse
    /\ uncaught' = NoError
    /\ trace' = NoTrace
    /\ UNCHANGED <<engine, np_random>>

Next ==
    \/ correlation_analysis
    \/ regression_analysis
    \/ clustering_analysis
    \/ statistical_summary
    \/ general_analysis
    \/ Respond

Spec == Init /\ [][Next]_vars

(***************************************************************************)
(* Properties.                                                             *)
(***************************************************************************)
Responded == pc = "responded"

OneCall(method) == Len(trace.calls) = 1 /\ trace.calls[1].method = method

IsEmptyMapping(result) == DOMAIN result = {}

(* C1: every handler ends by returning an envelope and no error escapes:   *)
(* success=true with the result and no message exactly when the try block  *)
(* did not raise, success=false with an empty result and a message         *)
(* exactly when it raised.                                                 *)
C1_EnvelopeAlways ==
    Responded =>
        /\ uncaught = NoError
        /\ trace.raised <=> ~response.success
        /\ response.success => ~IsEmptyMapping(response.result) /\ ~response.message.given
        /\ ~response.success => IsEmptyMapping(response.result) /\ response.message.given

C1_Witness ==
    /\ Responded
    /\ request.endpoint = "/statistical-summary"
    /\ trace.raised
    /\ ~response.success
    /\ response.message.prefix = "400: "

(* C2: a correlation or clustering call none of whose requested columns    *)
(* is classified numeric fails, and it fails before a correlation matrix   *)
(* or a k-means fit is computed.                                           *)
NoNumericRequested(call) ==
    LET df == DataFrame(call.data)
    IN  \A i \in DOMAIN call.columns :
            \/ call.columns[i] \notin Range(df.columns)
            \/ Dtype(df.cells[call.columns[i]]) \notin NumberDtypes

C2_NonNumericRejected ==
    /\ Responded
    /\ OneCall("correlation_analysis") \/ OneCall("clustering_analysis")
    /\ NoNumericRequested(trace.calls[1])
    => /\ ~response.success
       /\ trace.raised
       /\ "corr" \notin Range(trace.steps)
       /\ "fit_predict" \notin Range(trace.steps)

C2_Witness ==
    /\ Responded
    /\ OneCall("clustering_analysis")
    /\ trace.calls[1].columns # <<>>
    /\ Range(trace.calls[1].columns) \subseteq Range(DataFrame(trace.calls[1].data).columns)
    /\ NoNumericRequested(trace.calls[1])
    /\ ~response.success
    /\ response.message.text = "No numeric columns found for clustering"

(***************************************************************************)
(* Directives, compared without the model's lower().                       *)
(***************************************************************************)
SameLetter(c, d) ==
    c = d \/ \E k \in DOMAIN UpperLetters : {c, d} = {UpperLetters[k], LowerLetters[k]}

EqualIgnoringCase(x, y) ==
    Len(x) = Len(y) /\ \A i \in DOMAIN x : SameLetter(x[i], y[i])

KnownNames == {Correlation, Regression, Clustering, Summary}

MethodOf(name) ==
    CASE name = Correlation -> "correlation_analysis"
      [] name = Regression -> "regression_analysis"
      [] name = Clustering -> "clustering_analysis"
      [] OTHER -> "statistical_summary"

RequiredOptions(name) ==
    CASE name = Correlation -> {"columns"}
      [] name = Clustering -> {"columns"}
      [] name = Regression -> {"target_column", "feature_columns"}
      [] OTHER -> {}

(* the option is in the mapping with a non-empty value *)
Supplied(parameters, option) ==
    /\ ~parameters.none
    /\ option \in parameters.keys
    /\ option = "columns" => parameters.columns # <<>>
    /\ option = "target_column" => parameters.target_column # ""
    /\ option = "feature_columns" => parameters.feature_columns # <<>>

Routed(name) ==
    /\ \A i \in DOMAIN trace.calls : trace.calls[i].method = MethodOf(name)
    /\ Len(trace.calls) <= 1
    /\ (\A o \in RequiredOptions(name) : Supplied(request.parameters, o))
           => Len(trace.calls) = 1

Unknown == \A name \in KnownNames : ~EqualIgnoringCase(request.analysis_type, name)

(* C3 as stated: a directive equal, ignoring case, to a known name invokes *)
(* that analysis and no other; any other directive invokes nothing and     *)
(* fails with "Unknown analysis type: " followed by the directive value    *)
(* the caller supplied.                                                    *)
C3_AsStated ==
    Responded /\ request.endpoint = "/analyze" =>
        /\ \A name \in KnownNames : EqualIgnoringCase(request.analysis_type, name) => Routed(name)
        /\ Unknown =>
              /\ trace.calls = <<>>
              /\ ~response.success
              /\ response.message.text = "Unknown analysis type: "
              /\ response.message.arg = request.analysis_type

(* C3: a directive equal, ignoring case, to a known name invokes that      *)
(* analysis and no other; any other directive invokes nothing and fails    *)
(* with "Unknown analysis type: " followed by the directive value in       *)
(* lower case.                                                             *)
C3_Dispatch ==
    Responded /\ request.endpoint = "/analyze" =>
        /\ \A name \in KnownNames : EqualIgnoringCase(request.analysis_type, name) => Routed(name)
        /\ Unknown =>
              /\ trace.calls = <<>>
              /\ ~response.success
              /\ response.message.text = "Unknown analysis type: "
              /\ EqualIgnoringCase(response.message.arg, request.analysis_type)
              /\ \A i \in DOMAIN response.message.arg :
                     response.message.arg[i] \notin Range(UpperLetters)

C3_Witness ==
    /\ Responded
    /\ request.endpoint = "/analyze"
    /\ request.analysis_type # Clustering
    /\ EqualIgnoringCase(request.analysis_type, Clustering)
    /\ OneCall("clustering_analysis")
    /\ response.success

(* the failure texts that name an option *)
TextsNaming(option) ==
    IF option = "columns"
    THEN {"Columns parameter required for correlation analysis",
          "Columns parameter required for clustering"}
    ELSE {"target_column and feature_columns parameters required for regression"}

ExpectedCall(name) ==
    LET p == request.parameters
    IN  CASE name = Correlation ->
               Call("correlation_analysis", request.data, p.columns, "", <<>>, 0)
          [] name = Regression ->
               Call("regression_analysis", request.data, <<>>, p.target_column,
                    p.feature_columns, 0)
          [] OTHER ->
               Call("clustering_analysis", request.data, p.columns, "", <<>>,
                    IF "n_clusters" \in p.keys THEN p.n_clusters ELSE 3)

(* C4 as stated: on /analyze, correlation or clustering without the option *)
(* columns, and regression without target_column or feature_columns, fail  *)
(* with a message naming the missing option and call no analysis; with     *)
(* every required option present the analysis is called with exactly those *)
(* values, n_clusters being 3 when absent.                                 *)
C4_AsStated ==
    Responded /\ request.endpoint = "/analyze" =>
        \A name \in {Correlation, Clustering, Regression} :
            EqualIgnoringCase(request.analysis_type, name) =>
                LET missing == {o \in RequiredOptions(name) :
                                   request.parameters.none \/ o \notin request.parameters.keys}
                IN  IF missing # {}
                    THEN /\ ~response.success
                         /\ trace.calls = <<>>
                         /\ response.message.given
                         /\ \E o \in missing : response.message.text \in TextsNaming(o)
                    ELSE trace.calls = <<ExpectedCall(name)>>

(***************************************************************************)
(* Clustering.                                                             *)
(***************************************************************************)
Count(labels, id) == Cardinality({i \in DOMAIN labels : labels[i] = id})

(* C5: a clustering call with n_clusters below 1 or above the number of    *)
(* rows fails with an empty result and fits nothing; a successful call     *)
(* reports the requested n_clusters and uses labels below it.              *)
C5_ClusterCountRejected ==
    Responded /\ OneCall("clustering_analysis") =>
        LET call == trace.calls[1]
        IN  /\ call.n_clusters < 1 \/ call.n_clusters > Len(call.data) =>
                  /\ ~response.success
                  /\ IsEmptyMapping(response.result)
                  /\ response.message.given
                  /\ "fit_predict" \notin Range(trace.steps)
            /\ response.success =>
                  /\ response.result.n_clusters = call.n_clusters
                  /\ Range(response.result.clusters) \subseteq 0..(call.n_clusters - 1)
                  /\ Len(response.result.cluster_centers) = call.n_clusters

C5_Witness ==
    /\ Responded
    /\ OneCall("clustering_analysis")
    /\ Len(trace.calls[1].data) >= 1
    /\ trace.calls[1].n_clusters > Len(trace.calls[1].data)
    /\ "KMeans" \in Range(trace.steps)
    /\ ~response.success
    /\ response.message.text = "n_samples should be >= n_clusters"

(* C6: on a successful clustering call there is one label per row, every   *)
(* label is in [0, n_clusters), the summary has one entry per distinct     *)
(* label, an entry's size is the number of rows with its label, and the    *)
(* sizes add up to the number of rows.                                     *)
C6_SummaryPartitions ==
    Responded /\ OneCall("clustering_analysis") /\ response.success =>
        LET call == trace.calls[1]
            labels == response.result.clusters
            entries == response.result.cluster_summary
        IN  /\ Len(labels) = Len(call.data)
            /\ \A i \in DOMAIN labels : labels[i] >= 0 /\ labels[i] < call.n_clusters
            /\ DOMAIN entries = Range(labels)
            /\ \A id \in DOMAIN entries : entries[id].size = Count(labels, id)
            /\ SumOver([id \in DOMAIN entries |-> entries[id].size], DOMAIN entries)
                   = Len(call.data)

C6_Witness ==
    /\ Responded
    /\ OneCall("clustering_analysis")
    /\ response.success
    /\ Len(trace.calls[1].data) = 3
    /\ Cardinality(Range(response.result.clusters)) = 2

(* C7: a clustering call repeated with the same records, columns and       *)
(* n_clusters, after any other calls, succeeds again with the same cluster *)
(* assignment and the same cluster centers.                                *)
C7_RepeatIdentical ==
    Responded /\ memo.set /\ trace.calls = <<memo.call>> =>
        /\ response.success
        /\ response.result.clusters = memo.response.result.clusters
        /\ response.result.cluster_centers = memo.response.result.cluster_centers

C7_Witness ==
    /\ Responded
    /\ memo.set
    /\ trace.calls = <<memo.call>>
    /\ response.success
    /\ Cardinality(Range(response.result.clusters)) > 1

(* C8: the engine and the process-wide random state are as they were at    *)
(* start-up after every call, and the table built from the caller's        *)
(* records is, after the call, the table those records build.              *)
C8_NoCrossRequestState ==
    /\ engine = AnalyticsEngine
    /\ np_random = GlobalRandomState
    /\ Responded /\ trace.calls # <<>> =>
           trace.frame = DataFrame(trace.calls[1].data)

C8_Witness ==
    /\ Responded
    /\ OneCall("clustering_analysis")
    /\ response.success
    /\ "copy" \in Range(trace.steps)
    /\ memo.set

(***************************************************************************)
(* Correlation.                                                            *)
(***************************************************************************)
(* |v| >= 0.7 for a coefficient kept as its sign and its square *)
Strong(v) == ~v.nan /\ 100 * v.num >= 49 * v.den

StrongPairs(columns) ==
    {p \in (DOMAIN columns) \X (DOMAIN columns) : p[1] < p[2]}

(* C9: on a successful correlation call the strong-correlation list holds  *)
(* exactly the pairs i < j of the numeric subset with |r| >= 0.7, once     *)
(* each, ordered by i and then j, with both column names and the signed    *)
(* coefficient of the matrix; no weak, undefined or self pair is listed.   *)
C9_StrongPairsExact ==
    Responded /\ OneCall("correlation_analysis") /\ response.success =>
        LET columns == response.result.columns
            matrix == response.result.correlation_matrix
            listed == response.result.summary.strong_correlations
            Index(name) == CHOOSE i \in DOMAIN columns : columns[i] = name
            At(p) == matrix[columns[p[2]]][columns[p[1]]]
            PairOf(e) == <<Index(e.column1), Index(e.column2)>>
        IN  /\ \A k \in DOMAIN listed :
                  /\ listed[k].column1 \in Range(columns)
                  /\ listed[k].column2 \in Range(columns)
                  /\ PairOf(listed[k]) \in StrongPairs(columns)
                  /\ listed[k].correlation = At(PairOf(listed[k]))
                  /\ Strong(listed[k].correlation)
            /\ \A p \in StrongPairs(columns) :
                  Strong(At(p)) => Cardinality({k \in DOMAIN listed : PairOf(listed[k]) = p}) = 1
            /\ \A k, l \in DOMAIN listed :
                  k < l =>
                      \/ PairOf(listed[k])[1] < PairOf(listed[l])[1]
                      \/ /\ PairOf(listed[k])[1] = PairOf(listed[l])[1]
                         /\ PairOf(listed[k])[2] < PairOf(listed[l])[2]

C9_Witness ==
    /\ Responded
    /\ OneCall("correlation_analysis")
    /\ response.success
    /\ Len(response.result.columns) = 3
    /\ \E k \in DOMAIN response.result.summary.strong_correlations :
           response.result.summary.strong_correlations[k].correlation.sign < 0
    /\ \E i, j \in DOMAIN response.result.columns :
           /\ i < j
           /\ ~Strong(response.result.correlation_matrix[response.result.columns[j]]
                                                        [response.result.columns[i]])

(***************************************************************************)
(* Statistical summary.                                                    *)
(***************************************************************************)
(* C10 as stated: on a successful summary every column of the table is in  *)
(* exactly one block, the numeric summary when it is classified numeric    *)
(* and the categorical summary otherwise, and every column has a           *)
(* missing-data count and a declared type.                                 *)
C10_AsStated ==
    Responded /\ OneCall("statistical_summary") /\ response.success =>
        LET df == DataFrame(trace.calls[1].data)
            result == response.result
        IN  \A c \in Range(df.columns) :
                /\ IF Dtype(df.cells[c]) \in NumberDtypes
                   THEN /\ c \in DOMAIN result.numeric_summary
                        /\ c \notin DOMAIN result.categorical_summary
                   ELSE /\ c \in DOMAIN result.categorical_summary
                        /\ c \notin DOMAIN result.numeric_summary
                /\ c \in DOMAIN result.missing_data
                /\ c \in DOMAIN result.data_types

====
